---- MODULE Spec2Model ----
(***************************************************************************)
(* GameClient (src/game.js): the browser client of a small multiplayer     *)
(* world.  One single-threaded event loop runs the handlers below, each to *)
(* completion: socket open/close/message, key down/up, the movement timer, *)
(* window resize, image-load completions and the NPC timer.                *)
(*                                                                         *)
(* JavaScript objects are functions over the set of their own keys, so a   *)
(* missing field is a key outside DOMAIN; numbers that may be NaN are the  *)
(* records [nan, v].                                                       *)
(***************************************************************************)
EXTENDS Integers, Sequences, FiniteSets, Bags, TLC

VARIABLES
  readyState,        \* this.socket.readyState
  pressedKeys,       \* this.pressedKeys, as the set of its keys
  isMoving,          \* this.isMoving
  currentDirection,  \* this.currentDirection
  movementInterval,  \* this.movementInterval: Null or a timer handle
  myPlayerId,        \* this.myPlayerId
  players,           \* this.players: identifier -> entity
  avatars,           \* this.avatars: name -> avatar definition
  avatarImages,      \* this.avatarImages: name -> direction -> loaded frames
  loaders,           \* the loadAvatarImage calls with images still to load
  viewport,          \* this.viewport
  npcs,              \* this.npcs
  npcsCreated,       \* this.npcsCreated
  npcMovementInterval, \* this.npcMovementInterval
  nearbyNPC,         \* this.nearbyNPC, as the NPC's identifier
  showTradePrompt,   \* this.showTradePrompt
  tradeMessage,      \* this.tradeMessage
  tradeMessageTimer, \* this.tradeMessageTimer
  lastEvent,         \* the handler that ran last, with its input
  inbound,           \* the message that handler decoded, if it decoded one
  out,               \* the messages that handler passed to socket.send
  wire               \* where the messages sent so far stand in the protocol

inputVars == <<pressedKeys, isMoving, currentDirection, movementInterval>>

netVars == <<myPlayerId, players, avatars, avatarImages, loaders, viewport>>

npcVars == <<npcs, npcsCreated, npcMovementInterval, nearbyNPC,
             showTradePrompt, tradeMessage, tradeMessageTimer>>

vars == <<readyState, inputVars, netVars, npcVars, lastEvent, inbound, out,
          wire>>

Null == "null"

(***************************** the connection ******************************)

CONNECTING == "CONNECTING"
OPEN == "OPEN"
CLOSING == "CLOSING"
CLOSED == "CLOSED"

JoinMessage == [action |-> "join_game", username |-> "Tim"]
MoveMessage(direction) == [action |-> "move", direction |-> direction]
StopMessage == [action |-> "stop"]

Event(type, key) == [type |-> type, key |-> key]

\* The outbound protocol as an automaton over everything socket.send was
\* given so far: join_game once and first, then groups of moves, each group
\* ended by at most one stop.
Sent(state, message) ==
  CASE state = "violated" -> "violated"
    [] message.action = "join_game" ->
         IF state = "start" THEN "idle" ELSE "violated"
    [] message.action = "move" ->
         IF state \in {"idle", "moving"} THEN "moving" ELSE "violated"
    [] message.action = "stop" ->
         IF state = "moving" THEN "idle" ELSE "violated"
    [] OTHER -> "violated"

SentAll(state, messages) ==
  LET After[i \in 0..Len(messages)] ==
        IF i = 0 THEN state ELSE Sent(After[i - 1], messages[i])
  IN After[Len(messages)]

\* every handler ends with the messages it sent added to the record
Logged == wire' = SentAll(wire, out')

(******************************* JS values *********************************)

\* a JavaScript number that may be NaN
Num(n) == [nan |-> FALSE, v |-> n]
NaN == [nan |-> TRUE, v |-> 0]

\* obj[field] read as a number: a missing field is undefined, and undefined
\* in arithmetic is NaN
NumField(obj, field) ==
  IF field \in DOMAIN obj THEN Num(obj[field]) ELSE NaN

\* a - b for a number-or-NaN a and an integer b
Minus(a, b) == IF a.nan THEN NaN ELSE Num(a.v - b)

\* Math.min(a, b) and Math.max(b, a) for a number-or-NaN a and an integer b
MathMin(a, b) == IF a.nan THEN NaN ELSE Num(IF a.v < b THEN a.v ELSE b)
MathMax(b, a) == IF a.nan THEN NaN ELSE Num(IF a.v > b THEN a.v ELSE b)

\* Object.assign(target, source): every own key of source is copied onto
\* target, whole value by whole value
ObjectAssign(target, source) ==
  [k \in DOMAIN target \cup DOMAIN source |->
     IF k \in DOMAIN source THEN source[k] ELSE target[k]]

\* delete obj[key]
Delete(obj, key) == [k \in DOMAIN obj \ {key} |-> obj[k]]

\* obj[key] = value
Put(obj, key, value) == ObjectAssign(obj, key :> value)

EmptyObject == << >>

(**************************** viewport controller **************************)

worldSize == 2048

\* n / 2; the window sizes of the model are even, so the quotient is exact
Half(n) == n \div 2

\* centerOnMyPlayer with the upper limit of the clamp taken as worldSize
centerOnMyPlayerWideClamp(myId, pl, vp) ==
  IF myId = Null \/ myId \notin DOMAIN pl THEN vp
  ELSE LET myPlayer == pl[myId]
           x0 == Minus(NumField(myPlayer, "x"), Half(vp.width))
           y0 == Minus(NumField(myPlayer, "y"), Half(vp.height))
       IN [vp EXCEPT
             !.x = MathMax(0, MathMin(x0, worldSize)),
             !.y = MathMax(0, MathMin(y0, worldSize))]

centerOnMyPlayer(myId, pl, vp) ==
  IF myId = Null \/ myId \notin DOMAIN pl THEN vp
  ELSE LET myPlayer == pl[myId]
           x0 == Minus(NumField(myPlayer, "x"), Half(vp.width))
           y0 == Minus(NumField(myPlayer, "y"), Half(vp.height))
       IN [vp EXCEPT
             !.x = MathMax(0, MathMin(x0, worldSize - vp.width)),
             !.y = MathMax(0, MathMin(y0, worldSize - vp.height))]

updateViewport(myId, pl, vp) ==
  IF myId # Null /\ myId \in DOMAIN pl
  THEN centerOnMyPlayer(myId, pl, vp)
  ELSE vp

\* the resize listener of setupCanvas, with window.innerWidth/innerHeight
resize(w, h) ==
  /\ lastEvent' = Event("resize", "")
  /\ inbound' = << >>
  /\ out' = << >>
  /\ viewport' = updateViewport(myPlayerId, players,
                                [viewport EXCEPT !.width = w, !.height = h])
  /\ UNCHANGED <<readyState, inputVars, myPlayerId, players, avatars,
                 avatarImages, loaders, npcVars>>
  /\ Logged

(****************************** avatar images ******************************)

requiredDirections == {"north", "south", "east"}

\* the frames of a definition: direction -> number of frames
totalFrames(avatar) ==
  LET Sum[D \in SUBSET DOMAIN avatar.frames] ==
        IF D = {} THEN 0
        ELSE LET d == CHOOSE d \in D : TRUE
             IN avatar.frames[d] + Sum[D \ {d}]
  IN Sum[DOMAIN avatar.frames]

\* the closure state of one loadAvatarImage call: its counters and the
\* images whose onload has not run yet
Loader(avatar) ==
  [avatarKey |-> avatar.name,
   loadedFrames |-> 0,
   totalFrames |-> totalFrames(avatar),
   pending |-> UNION {{<<d, i>> : i \in 0..(avatar.frames[d] - 1)} :
                        d \in DOMAIN avatar.frames}]

\* loadAvatarImage: the cache entry of the name starts again, with an empty
\* array for each direction of this definition
loadAvatarImage(images, avatar) ==
  Put(images, avatar.name, [d \in DOMAIN avatar.frames |-> {}])

\* an array as the set of its filled indices: its length
Length(arr) ==
  IF arr = {} THEN 0
  ELSE (CHOOSE i \in arr : \A j \in arr : j <= i) + 1

(********************************** NPCs ***********************************)

NpcNames == <<"npc_0", "npc_1", "npc_2", "npc_3", "npc_4", "npc_5">>
npcCount == Len(NpcNames)
NpcIds == {NpcNames[i] : i \in 1..npcCount}

Abs(n) == IF n < 0 THEN -n ELSE n
Sign(n) == IF n < 0 THEN -1 ELSE IF n > 0 THEN 1 ELSE 0
Clamp(lo, n, hi) == IF n < lo THEN lo ELSE IF n > hi THEN hi ELSE n

\* Math.random() is r / RandomUnit for a whole r in 0..RandomUnit - 1
RandomUnit == 1000

\* Math.random() * range, in whole units
Scaled(r, range) == (r * range) \div RandomUnit

\* Math.cos and Math.sin of Math.random() * Math.PI * 2, for the four
\* angles along the axes
Cos(r) ==
  CASE r = 0 -> 1
    [] r = RandomUnit \div 4 -> 0
    [] r = RandomUnit \div 2 -> -1
    [] r = 3 * (RandomUnit \div 4) -> 0
Sin(r) ==
  CASE r = 0 -> 0
    [] r = RandomUnit \div 4 -> 1
    [] r = RandomUnit \div 2 -> 0
    [] r = 3 * (RandomUnit \div 4) -> -1

\* createNPCs spreading the NPCs over the whole width and height of the
\* world before adding the offset of 100
createNPCsWholeWorld(playerAvatar, spawn) ==
  /\ npcs' = [id \in NpcIds |->
                LET x == Scaled(spawn[id].x, worldSize) + 100
                    y == Scaled(spawn[id].y, worldSize) + 100
                IN [x |-> x, y |-> y,
                    avatar |-> playerAvatar, facing |-> "south",
                    isMoving |-> FALSE, animationFrame |-> 0,
                    targetX |-> x, targetY |-> y,
                    moveTimer |-> 0,
                    moveInterval |-> 2000 + Scaled(spawn[id].moveInterval, 3000),
                    moveSpeed |-> 1 + Scaled(spawn[id].moveSpeed, 2)]]
  /\ npcsCreated' = TRUE
  /\ npcMovementInterval' = "interval"

\* createNPCs; spawn gives the Math.random() results of each NPC, in the
\* order drawn: for x, for y, for its first interval and for its speed
createNPCs(playerAvatar, spawn) ==
  /\ npcs' = [id \in NpcIds |->
                LET x == Scaled(spawn[id].x, worldSize - 200) + 100
                    y == Scaled(spawn[id].y, worldSize - 200) + 100
                IN [x |-> x, y |-> y,
                    avatar |-> playerAvatar, facing |-> "south",
                    isMoving |-> FALSE, animationFrame |-> 0,
                    targetX |-> x, targetY |-> y,
                    moveTimer |-> 0,
                    moveInterval |-> 2000 + Scaled(spawn[id].moveInterval, 3000),
                    moveSpeed |-> 1 + Scaled(spawn[id].moveSpeed, 2)]]
  /\ npcsCreated' = TRUE
  /\ npcMovementInterval' = "interval"

\* whether checkAndCreateNPCs gets as far as createNPCs, and with which avatar
playerAvatarOf(myId, pl) ==
  IF myId # Null /\ myId \in DOMAIN pl /\ "avatar" \in DOMAIN pl[myId]
  THEN pl[myId].avatar
  ELSE Null

avatarReady(images, playerAvatar) ==
  /\ playerAvatar # Null
  /\ playerAvatar \in DOMAIN images
  /\ \A d \in requiredDirections :
       /\ d \in DOMAIN images[playerAvatar]
       /\ Length(images[playerAvatar][d]) # 0

checkAndCreateNPCs(myId, pl, images, spawn) ==
  IF ~npcsCreated /\ avatarReady(images, playerAvatarOf(myId, pl))
  THEN createNPCs(playerAvatarOf(myId, pl), spawn)
  ELSE UNCHANGED <<npcs, npcsCreated, npcMovementInterval>>

\* setNPCTarget without the clamp to the world bounds
setNPCTargetUnclamped(npc, draw) ==
  LET distance == 100 + Scaled(draw.distance, 200)
      tx == npc.x + Cos(draw.angle) * distance
      ty == npc.y + Sin(draw.angle) * distance
      dx == tx - npc.x
      dy == ty - npc.y
  IN [npc EXCEPT
        !.targetX = tx,
        !.targetY = ty,
        !.facing = IF Abs(dx) > Abs(dy)
                   THEN (IF dx > 0 THEN "east" ELSE "west")
                   ELSE (IF dy > 0 THEN "south" ELSE "north"),
        !.isMoving = TRUE]

\* setNPCTarget; draw gives the Math.random() results for the distance and
\* for the angle
setNPCTarget(npc, draw) ==
  LET distance == 100 + Scaled(draw.distance, 200)
      tx == Clamp(50, npc.x + Cos(draw.angle) * distance, worldSize - 50)
      ty == Clamp(50, npc.y + Sin(draw.angle) * distance, worldSize - 50)
      dx == tx - npc.x
      dy == ty - npc.y
  IN [npc EXCEPT
        !.targetX = tx,
        !.targetY = ty,
        !.facing = IF Abs(dx) > Abs(dy)
                   THEN (IF dx > 0 THEN "east" ELSE "west")
                   ELSE (IF dy > 0 THEN "south" ELSE "north"),
        !.isMoving = TRUE]

\* moveNPCTowardsTarget with an arrival threshold of 50 instead of 5
moveNPCTowardsTargetSnapsFromAfar(npc) ==
  LET dx == npc.targetX - npc.x
      dy == npc.targetY - npc.y
      distance == Abs(dx) + Abs(dy)
  IN IF distance < 50
     THEN [npc EXCEPT !.x = npc.targetX, !.y = npc.targetY,
                      !.isMoving = FALSE, !.animationFrame = 0]
     ELSE [npc EXCEPT !.x = npc.x + Sign(dx) * npc.moveSpeed,
                      !.y = npc.y + Sign(dy) * npc.moveSpeed,
                      !.animationFrame = (npc.animationFrame + 1) % 15]

\* moveNPCTowardsTarget with an arrival that stops the NPC where it stands
\* instead of putting it on its target
moveNPCTowardsTargetStopsShort(npc) ==
  LET dx == npc.targetX - npc.x
      dy == npc.targetY - npc.y
      distance == Abs(dx) + Abs(dy)
  IN IF distance < 5
     THEN [npc EXCEPT !.isMoving = FALSE, !.animationFrame = 0]
     ELSE [npc EXCEPT !.x = npc.x + Sign(dx) * npc.moveSpeed,
                      !.y = npc.y + Sign(dy) * npc.moveSpeed,
                      !.animationFrame = (npc.animationFrame + 1) % 15]

\* moveNPCTowardsTarget.  Targets of the model lie on the NPC's row or
\* column, so the distance is |dx| + |dy| and the step is moveSpeed along
\* that axis; animationFrame counts in steps of 0.2
moveNPCTowardsTarget(npc) ==
  LET dx == npc.targetX - npc.x
      dy == npc.targetY - npc.y
      distance == Abs(dx) + Abs(dy)
  IN IF distance < 5
     THEN [npc EXCEPT !.x = npc.targetX, !.y = npc.targetY,
                      !.isMoving = FALSE, !.animationFrame = 0]
     ELSE [npc EXCEPT !.x = npc.x + Sign(dx) * npc.moveSpeed,
                      !.y = npc.y + Sign(dy) * npc.moveSpeed,
                      !.animationFrame = (npc.animationFrame + 1) % 15]

\* the body of the loop of updateNPCs retargeting only once the timer has
\* passed the interval
updateNPCLate(npc, draw) ==
  LET timed == [npc EXCEPT !.moveTimer = npc.moveTimer + 50]
      aimed == IF timed.moveTimer > timed.moveInterval
               THEN [setNPCTarget(timed, draw) EXCEPT
                       !.moveTimer = 0,
                       !.moveInterval = 2000 + Scaled(draw.moveInterval, 3000)]
               ELSE timed
  IN moveNPCTowardsTarget(aimed)

\* the body of the loop of updateNPCs for one NPC
updateNPC(npc, draw) ==
  LET timed == [npc EXCEPT !.moveTimer = npc.moveTimer + 50]
      aimed == IF timed.moveTimer >= timed.moveInterval
               THEN [setNPCTarget(timed, draw) EXCEPT
                       !.moveTimer = 0,
                       !.moveInterval = 2000 + Scaled(draw.moveInterval, 3000)]
               ELSE timed
  IN moveNPCTowardsTarget(aimed)

tradeDistance == 80

\* checkForNearbyNPCs: the first NPC, in the order of creation, within
\* tradeDistance of the local player; a position with a missing
\* coordinate is at distance NaN, which is within no radius
FirstNearby(myPlayer, ns) ==
  LET px == NumField(myPlayer, "x")
      py == NumField(myPlayer, "y")
      Near(id) ==
        /\ ~px.nan /\ ~py.nan
        /\ (ns[id].x - px.v) * (ns[id].x - px.v)
             + (ns[id].y - py.v) * (ns[id].y - py.v)
           <= tradeDistance * tradeDistance
      Scan[i \in 1..(npcCount + 1)] ==
        IF i > npcCount THEN Null
        ELSE IF NpcNames[i] \in DOMAIN ns /\ Near(NpcNames[i])
        THEN NpcNames[i]
        ELSE Scan[i + 1]
  IN Scan[1]

checkForNearbyNPCs(ns) ==
  IF myPlayerId = Null \/ myPlayerId \notin DOMAIN players
  THEN UNCHANGED <<nearbyNPC, showTradePrompt>>
  ELSE /\ nearbyNPC' = FirstNearby(players[myPlayerId], ns)
       /\ showTradePrompt' = (FirstNearby(players[myPlayerId], ns) # Null)

\* one firing of the setInterval callback of startNPCMovement; draws gives
\* each NPC the Math.random() results of a retarget
updateNPCs(draws) ==
  /\ npcMovementInterval # Null
  /\ lastEvent' = Event("npctick", "")
  /\ inbound' = << >>
  /\ out' = << >>
  /\ npcs' = [id \in DOMAIN npcs |-> updateNPC(npcs[id], draws[id])]
  /\ checkForNearbyNPCs(npcs')
  /\ IF tradeMessageTimer > 0
     THEN /\ tradeMessageTimer' = tradeMessageTimer - 50
          /\ tradeMessage' = IF tradeMessageTimer - 50 <= 0 THEN ""
                             ELSE tradeMessage
     ELSE UNCHANGED <<tradeMessage, tradeMessageTimer>>
  /\ UNCHANGED <<readyState, inputVars, netVars, npcsCreated,
                 npcMovementInterval>>
  /\ Logged

\* the inventory never leaves its initial value, nine empty slots
inventory == [i \in 1..9 |-> Null]

\* handleTradeKey setting the message and leaving the timer as it is
handleTradeKeyNoTimer ==
  IF nearbyNPC # Null /\ showTradePrompt
  THEN /\ tradeMessage' =
            IF \E i \in DOMAIN inventory : inventory[i] # Null
            THEN "Trading system not implemented yet!"
            ELSE "You have nothing to trade"
       /\ UNCHANGED tradeMessageTimer
  ELSE UNCHANGED <<tradeMessage, tradeMessageTimer>>

handleTradeKey ==
  IF nearbyNPC # Null /\ showTradePrompt
  THEN /\ tradeMessage' =
            IF \E i \in DOMAIN inventory : inventory[i] # Null
            THEN "Trading system not implemented yet!"
            ELSE "You have nothing to trade"
       /\ tradeMessageTimer' = 3000
  ELSE UNCHANGED <<tradeMessage, tradeMessageTimer>>

(************************* input/movement controller ***********************)

ArrowKeys == {"ArrowUp", "ArrowDown", "ArrowLeft", "ArrowRight"}

\* the keys a key event may carry: the mapped ones, the trade key in both
\* cases, and one key the client has no use for
KeyIds == ArrowKeys \cup {"t", "T", "a"}

getDirectionFromKey(key) ==
  CASE key = "ArrowUp" -> "up"
    [] key = "ArrowDown" -> "down"
    [] key = "ArrowLeft" -> "left"
    [] key = "ArrowRight" -> "right"
    [] OTHER -> Null

priority == <<"ArrowUp", "ArrowDown", "ArrowLeft", "ArrowRight">>

FirstHeld(keys, i) ==
  LET Scan[j \in 1..(Len(priority) + 1)] ==
        IF j > Len(priority) THEN Null
        ELSE IF priority[j] \in keys THEN getDirectionFromKey(priority[j])
        ELSE Scan[j + 1]
  IN Scan[i]

\* the scan of getPrimaryDirection keeping the last held key of the order
\* instead of returning at the first
getPrimaryDirectionLastWins(keys) ==
  LET Scan[j \in 0..Len(priority)] ==
        IF j = 0 THEN Null
        ELSE IF priority[j] \in keys THEN getDirectionFromKey(priority[j])
        ELSE Scan[j - 1]
  IN Scan[Len(priority)]

getPrimaryDirection(keys) == FirstHeld(keys, 1)

\* sendMoveCommand: <<messages sent, isMoving, currentDirection>>
sendMoveCommand(rs, direction, moving, dir) ==
  IF rs # OPEN THEN <<<< >>, moving, dir>>
  ELSE <<<<MoveMessage(direction)>>, TRUE, direction>>

\* sendStopCommand without its readyState test
sendStopCommandUnguarded(rs, moving, dir) ==
  <<<<StopMessage>>, FALSE, Null>>

\* sendStopCommand: <<messages sent, isMoving, currentDirection>>
sendStopCommand(rs, moving, dir) ==
  IF rs # OPEN THEN <<<< >>, moving, dir>>
  ELSE <<<<StopMessage>>, FALSE, Null>>

\* stopContinuousMovement in connection state rs
stopContinuousMovement(rs) ==
  LET r == sendStopCommand(rs, isMoving, currentDirection)
  IN /\ movementInterval' = Null
     /\ out' = r[1]
     /\ isMoving' = r[2]
     /\ currentDirection' = r[3]

\* clearInterval of the old handle, if any, then setInterval, which
\* returns the handle of a new interval, another one than the handle just
\* cleared: the first tick of the new interval is a whole period away
startContinuousMovement ==
  movementInterval' =
    IF movementInterval = "interval_a" THEN "interval_b" ELSE "interval_a"

\* updateMovementState stopping whenever no mapped key is held, whether
\* or not a move was sent
updateMovementStateAlwaysStops(keys) ==
  LET hasMovementKeys == \E key \in keys : getDirectionFromKey(key) # Null
  IN IF ~hasMovementKeys
     THEN stopContinuousMovement(readyState)
     ELSE /\ out' = << >>
          /\ UNCHANGED <<isMoving, currentDirection, movementInterval>>

updateMovementState(keys) ==
  LET hasMovementKeys == \E key \in keys : getDirectionFromKey(key) # Null
  IN IF ~hasMovementKeys /\ isMoving
     THEN stopContinuousMovement(readyState)
     ELSE /\ out' = << >>
          /\ UNCHANGED <<isMoving, currentDirection, movementInterval>>

handleKeyDown(key) ==
  /\ lastEvent' = Event("keydown", key)
  /\ inbound' = << >>
  /\ out' = << >>
  /\ UNCHANGED <<readyState, isMoving, currentDirection, netVars, npcs,
                 npcsCreated, npcMovementInterval, nearbyNPC, showTradePrompt>>
  /\ IF readyState # OPEN
     THEN UNCHANGED <<pressedKeys, movementInterval, tradeMessage,
                      tradeMessageTimer>>
     ELSE IF getDirectionFromKey(key) # Null /\ key \notin pressedKeys
     THEN /\ pressedKeys' = pressedKeys \cup {key}
          /\ startContinuousMovement
          /\ UNCHANGED <<tradeMessage, tradeMessageTimer>>
     ELSE IF key = "t" \/ key = "T"
     THEN /\ handleTradeKey
          /\ UNCHANGED <<pressedKeys, movementInterval>>
     ELSE UNCHANGED <<pressedKeys, movementInterval, tradeMessage,
                      tradeMessageTimer>>
  /\ Logged

handleKeyUp(key) ==
  /\ lastEvent' = Event("keyup", key)
  /\ inbound' = << >>
  /\ UNCHANGED <<readyState, netVars, npcVars>>
  /\ IF getDirectionFromKey(key) # Null /\ key \in pressedKeys
     THEN /\ pressedKeys' = pressedKeys \ {key}
          /\ updateMovementState(pressedKeys \ {key})
     ELSE /\ out' = << >>
          /\ UNCHANGED inputVars
  /\ Logged

\* sendContinuousMoveCommand moving the local player itself by one step in
\* the direction it sends, ahead of the server
sendContinuousMoveCommandPredicting ==
  /\ movementInterval # Null
  /\ lastEvent' = Event("movetick", "")
  /\ inbound' = << >>
  /\ UNCHANGED <<readyState, pressedKeys, movementInterval, myPlayerId,
                 avatars, avatarImages, loaders, viewport, npcVars>>
  /\ LET primaryDirection == getPrimaryDirection(pressedKeys)
         r == sendMoveCommand(readyState, primaryDirection, isMoving,
                              currentDirection)
     IN IF readyState # OPEN \/ primaryDirection = Null
        THEN /\ out' = << >>
             /\ UNCHANGED <<isMoving, currentDirection, players>>
        ELSE /\ out' = r[1]
             /\ isMoving' = r[2]
             /\ currentDirection' = r[3]
             /\ players' =
                  IF myPlayerId # Null /\ myPlayerId \in DOMAIN players
                  THEN Put(players, myPlayerId,
                           Put(players[myPlayerId], "y",
                               NumField(players[myPlayerId], "y").v - 5))
                  ELSE players
  /\ Logged

\* one firing of the setInterval callback of startContinuousMovement
sendContinuousMoveCommand ==
  /\ movementInterval # Null
  /\ lastEvent' = Event("movetick", "")
  /\ inbound' = << >>
  /\ UNCHANGED <<readyState, pressedKeys, movementInterval, netVars, npcVars>>
  /\ LET primaryDirection == getPrimaryDirection(pressedKeys)
         r == sendMoveCommand(readyState, primaryDirection, isMoving,
                              currentDirection)
     IN IF readyState # OPEN \/ primaryDirection = Null
        THEN /\ out' = << >>
             /\ UNCHANGED <<isMoving, currentDirection>>
        ELSE /\ out' = r[1]
             /\ isMoving' = r[2]
             /\ currentDirection' = r[3]
  /\ Logged

(****************************** state reconciler ***************************)

\* loadAvatarImages without its last line: loadAvatarImage for every
\* definition of avs, each resetting its own name's cache entry
loadAvatarImages(images, avs) ==
  ObjectAssign(images,
               [name \in {avs[k].name : k \in DOMAIN avs} |->
                  LET k == CHOOSE k \in DOMAIN avs : avs[k].name = name
                  IN [d \in DOMAIN avs[k].frames |-> {}]])

\* the loaders that loading the definitions D starts; a definition with no
\* frame has no image whose onload could run
NewLoaders(D) == SetToBag({Loader(a) : a \in {a \in D : totalFrames(a) > 0}})

\* case "join_game"
join_game(message, spawn) ==
  IF message.success
  THEN LET images == loadAvatarImages(avatarImages, message.avatars)
       IN /\ myPlayerId' = message.playerId
          /\ players' = message.players
          /\ avatars' = message.avatars
          /\ avatarImages' = images
          /\ loaders' = loaders (+)
               NewLoaders({message.avatars[k] : k \in DOMAIN message.avatars})
          /\ checkAndCreateNPCs(message.playerId, message.players, images,
                                spawn)
          /\ viewport' = centerOnMyPlayer(message.playerId, message.players,
                                          viewport)
  ELSE UNCHANGED <<netVars, npcs, npcsCreated, npcMovementInterval>>

\* case "player_joined"
player_joined(message) ==
  /\ players' = Put(players, message.player.id, message.player)
  /\ avatars' = Put(avatars, message.avatar.name, message.avatar)
  /\ avatarImages' = loadAvatarImage(avatarImages, message.avatar)
  /\ loaders' = loaders (+) NewLoaders({message.avatar})
  /\ UNCHANGED <<myPlayerId, viewport, npcs, npcsCreated,
                 npcMovementInterval>>

\* case "players_moved"
players_moved(message) ==
  /\ players' = ObjectAssign(players, message.players)
  /\ viewport' =
       IF myPlayerId # Null /\ myPlayerId \in DOMAIN message.players
       THEN updateViewport(myPlayerId, players', viewport)
       ELSE viewport
  /\ UNCHANGED <<myPlayerId, avatars, avatarImages, loaders, npcs,
                 npcsCreated, npcMovementInterval>>

\* case "player_left" emptying the table
player_leftClearsAll(message) ==
  /\ players' = EmptyObject
  /\ UNCHANGED <<myPlayerId, avatars, avatarImages, loaders, viewport,
                 npcs, npcsCreated, npcMovementInterval>>

\* case "player_left"
player_left(message) ==
  /\ players' = Delete(players, message.playerId)
  /\ UNCHANGED <<myPlayerId, avatars, avatarImages, loaders, viewport,
                 npcs, npcsCreated, npcMovementInterval>>

\* default treating the message as a reset of the session
unknownActionResets(message) ==
  /\ myPlayerId' = Null
  /\ players' = EmptyObject
  /\ UNCHANGED <<avatars, avatarImages, loaders, viewport, npcs,
                 npcsCreated, npcMovementInterval>>

\* default
unknownAction(message) ==
  UNCHANGED <<netVars, npcs, npcsCreated, npcMovementInterval>>

handleServerMessage(message, spawn) ==
  CASE message.action = "join_game" -> join_game(message, spawn)
    [] message.action = "player_joined" -> player_joined(message)
    [] message.action = "players_moved" -> players_moved(message)
    [] message.action = "player_left" -> player_left(message)
    [] OTHER -> unknownAction(message)

(***************************** socket callbacks ****************************)

\* JSON.parse(event.data): the decoded message, or the exception thrown
JSONparse(data) ==
  IF data.json THEN [threw |-> FALSE, value |-> data.value]
  ELSE [threw |-> TRUE, value |-> "SyntaxError"]

\* what the event log calls an inbound frame: its action, if it decodes
Kind(data) == IF data.json THEN data.value.action ELSE "undecodable"

Subject(data) ==
  IF ~data.json THEN ""
  ELSE IF data.value.action = "player_left" THEN data.value.playerId
  ELSE IF data.value.action = "player_joined" THEN data.value.player.id
  ELSE ""

\* socket.onmessage; at most cap image loaders may be in flight
onmessage(data, spawn, cap) ==
  /\ readyState = OPEN
  /\ lastEvent' = Event(Kind(data), Subject(data))
  /\ out' = << >>
  /\ UNCHANGED <<readyState, inputVars, nearbyNPC, showTradePrompt,
                 tradeMessage, tradeMessageTimer>>
  /\ LET parsed == JSONparse(data)
     IN IF parsed.threw
        THEN /\ inbound' = << >>
             /\ UNCHANGED <<netVars, npcs, npcsCreated, npcMovementInterval>>
        ELSE /\ inbound' = <<parsed.value>>
             /\ handleServerMessage(parsed.value, spawn)
  /\ BagCardinality(loaders') <= cap
  /\ Logged

\* img.onload of frame <<direction, index>> of one loadAvatarImage call.
\* The write goes to the cache entry the name has now; when that entry has
\* no array for the direction the write throws and the rest is skipped
onload(loader, direction, index, spawn) ==
  /\ BagIn(loader, loaders)
  /\ <<direction, index>> \in loader.pending
  /\ lastEvent' = Event("imageload", loader.avatarKey)
  /\ inbound' = << >>
  /\ out' = << >>
  /\ LET cache == avatarImages[loader.avatarKey]
         threw == direction \notin DOMAIN cache
         images == IF threw THEN avatarImages
                   ELSE Put(avatarImages, loader.avatarKey,
                            Put(cache, direction,
                                cache[direction] \cup {index}))
         after == [loader EXCEPT
                     !.pending = loader.pending \ {<<direction, index>>},
                     !.loadedFrames = IF threw THEN loader.loadedFrames
                                      ELSE loader.loadedFrames + 1]
     IN /\ avatarImages' = images
        /\ loaders' = (loaders (-) SetToBag({loader})) (+)
                      (IF after.pending = {} THEN EmptyBag
                       ELSE SetToBag({after}))
        /\ IF ~threw /\ after.loadedFrames = after.totalFrames
           THEN checkAndCreateNPCs(myPlayerId, players, images, spawn)
           ELSE UNCHANGED <<npcs, npcsCreated, npcMovementInterval>>
  /\ UNCHANGED <<readyState, inputVars, myPlayerId, players, avatars,
                 viewport, nearbyNPC, showTradePrompt, tradeMessage,
                 tradeMessageTimer>>
  /\ Logged

\* an image that fails to decode: no onerror is set, so nothing runs and
\* its onload never will
imageFailed(loader, direction, index) ==
  /\ BagIn(loader, loaders)
  /\ <<direction, index>> \in loader.pending
  /\ lastEvent' = Event("imagefail", loader.avatarKey)
  /\ inbound' = << >>
  /\ out' = << >>
  /\ LET after == [loader EXCEPT
                     !.pending = loader.pending \ {<<direction, index>>}]
     IN loaders' = (loaders (-) SetToBag({loader})) (+)
                   (IF after.pending = {} THEN EmptyBag
                    ELSE SetToBag({after}))
  /\ UNCHANGED <<readyState, inputVars, myPlayerId, players, avatars,
                 avatarImages, viewport, npcVars>>
  /\ Logged

joinGame == out' = <<JoinMessage>>

onopen ==
  /\ readyState = CONNECTING
  /\ readyState' = OPEN
  /\ lastEvent' = Event("open", "")
  /\ inbound' = << >>
  /\ joinGame
  /\ UNCHANGED <<inputVars, netVars, npcVars>>
  /\ Logged

\* the closing handshake starts: no callback of the client runs
closing ==
  /\ readyState = OPEN
  /\ readyState' = CLOSING
  /\ lastEvent' = Event("closing", "")
  /\ inbound' = << >>
  /\ out' = << >>
  /\ UNCHANGED <<inputVars, netVars, npcVars>>
  /\ Logged

onclose ==
  /\ readyState # CLOSED
  /\ readyState' = CLOSED
  /\ lastEvent' = Event("close", "")
  /\ inbound' = << >>
  /\ stopContinuousMovement(CLOSED)
  /\ UNCHANGED <<pressedKeys, netVars, npcVars>>
  /\ Logged

(******************************** the inputs *******************************)

LocalId == "p1"

\* window.innerWidth and window.innerHeight: one window smaller than the
\* world and one larger
Sizes == {800, 3000}

\* positions the server reports: near the low edge, inside, near the high edge
Coords == {100, 1000, 2000}

Entity(id, x, y, avatar) ==
  [f \in {"id", "x", "y", "facing", "avatar"} |->
     CASE f = "id" -> id
       [] f = "x" -> x
       [] f = "y" -> y
       [] f = "facing" -> "south"
       [] f = "avatar" -> avatar]

\* an avatar definition with the given number of frames in each direction;
\* rev tells one payload from another under the same name
Avatar(name, rev, frames) == [name |-> name, rev |-> rev, frames |-> frames]

Frame(data) == [json |-> TRUE, value |-> data]
Undecodable == [json |-> FALSE, value |-> [text |-> "{"]]

JoinOk(table, catalog) ==
  [action |-> "join_game", success |-> TRUE, playerId |-> LocalId,
   players |-> table, avatars |-> catalog]
JoinFailed == [action |-> "join_game", success |-> FALSE, error |-> "full"]
PlayerJoined(player, avatar) ==
  [action |-> "player_joined", player |-> player, avatar |-> avatar]
PlayersMoved(updates) == [action |-> "players_moved", players |-> updates]
PlayerLeft(id) == [action |-> "player_left", playerId |-> id]
Ping == [action |-> "ping"]

\* the tables over at most one entity of P1 (the local player's) and one of P2
Tables(P1, P2) ==
  {EmptyObject} \cup {e.id :> e : e \in P1 \cup P2}
    \cup {(e1.id :> e1) @@ (e2.id :> e2) : <<e1, e2>> \in P1 \X P2}

\* the partial updates over at most one update of U1 (the local player's)
\* and one of U2 (the other player's)
Moves(U1, U2) ==
  {EmptyObject} \cup {"p1" :> u : u \in U1} \cup {"p2" :> u : u \in U2}
    \cup {("p1" :> u1) @@ ("p2" :> u2) : <<u1, u2>> \in U1 \X U2}

\* every frame the server may send over the given entities, updates,
\* snapshot catalogs and avatar definitions
Frames(P1, P2, U1, U2, Catalogs, Defs) ==
  {Frame(JoinOk(t, c)) : <<t, c>> \in Tables(P1, P2) \X Catalogs}
    \cup {Frame(JoinFailed), Frame(Ping), Undecodable}
    \cup {Frame(PlayerJoined(e, d)) :
            <<e, d>> \in {ed \in (P1 \cup P2) \X Defs : ed[1].avatar = ed[2].name}}
    \cup {Frame(PlayersMoved(m)) : m \in Moves(U1, U2)}
    \cup {Frame(PlayerLeft(id)) : id \in {"p1", "p2", "p3"}}

\* the partial entities over the fields x and y
PositionUpdates(C) ==
  {EmptyObject} \cup {"x" :> c : c \in C} \cup {"y" :> c : c \in C}
    \cup {("x" :> cx) @@ ("y" :> cy) : <<cx, cy>> \in C \X C}

(******************************* constructor *******************************)

\* the state the constructor leaves, for a window of one of the sizes S
Constructed(S) ==
  /\ readyState = CONNECTING
  /\ pressedKeys = {}
  /\ isMoving = FALSE
  /\ currentDirection = Null
  /\ movementInterval = Null
  /\ myPlayerId = Null
  /\ players = EmptyObject
  /\ avatars = EmptyObject
  /\ avatarImages = EmptyObject
  /\ loaders = EmptyBag
  /\ \E w \in S, h \in S :
       viewport = [x |-> Num(0), y |-> Num(0), width |-> w, height |-> h]
  /\ npcs = EmptyObject
  /\ npcsCreated = FALSE
  /\ npcMovementInterval = Null
  /\ nearbyNPC = Null
  /\ showTradePrompt = FALSE
  /\ tradeMessage = ""
  /\ tradeMessageTimer = 0
  /\ lastEvent = Event("init", "")
  /\ inbound = << >>
  /\ out = << >>
  /\ wire = "start"

Init == Constructed(Sizes)

(************************* the input controller alone **********************)

NextInput ==
  \/ onopen
  \/ closing
  \/ onclose
  \/ \E key \in KeyIds : handleKeyDown(key)
  \/ \E key \in KeyIds : handleKeyUp(key)
  \/ sendContinuousMoveCommand

SpecInput == Init /\ [][NextInput]_vars

(**************************** the reconciler alone *************************)

MaxLoaders == 1

\* an avatar of one frame, facing south
SouthOnly == Avatar("a", 1, "south" :> 1)

NetFrames ==
  Frames({Entity("p1", x, y, "a") : <<x, y>> \in Coords \X Coords},
         {Entity("p2", 500, 500, "a")},
         PositionUpdates({1000}),
         {},
         {"a" :> SouthOnly},
         {SouthOnly})

\* no NPC is created in these runs: the avatar has no frame facing north
NoSpawn == EmptyObject

NextNet ==
  \/ onopen
  \/ onclose
  \/ \E data \in NetFrames : onmessage(data, NoSpawn, MaxLoaders)
  \/ \E w \in Sizes, h \in Sizes : resize(w, h)
  \/ \E loader \in BagToSet(loaders) : \E p \in loader.pending :
       onload(loader, p[1], p[2], NoSpawn)
  \/ \E loader \in BagToSet(loaders) : \E p \in loader.pending :
       imageFailed(loader, p[1], p[2])

SpecNet == Init /\ [][NextNet]_vars

(****************************** the whole client ***************************)
(* Every handler together, over one input of each kind.  The server        *)
(* acknowledges the client's one join_game once.                           *)

MaxNpcTicks == 2

\* an avatar of one frame in each direction the NPCs need
ThreeWay == Avatar("a", 1, [d \in requiredDirections |-> 1])

Local0 == Entity("p1", 1000, 1000, "a")
Other0 == Entity("p2", 500, 500, "b")

\* the acknowledgement of the one join_game the client sends
Welcome0 == Frame(JoinOk("p1" :> Local0, "a" :> ThreeWay))

\* one frame of each other kind the reconciler tells apart
Frames0 ==
  {Frame(PlayerJoined(Other0, Avatar("b", 1, "south" :> 1))),
   Frame(PlayersMoved("p1" :> ("x" :> 1000))),
   Frame(PlayerLeft("p1")),
   Frame(Ping)}

Keys0 == {"ArrowUp", "t"}

\* the Math.random() results of createNPCs: the first NPC appears at
\* (999, 1040), within trading distance of (1000, 1000), the others far
\* from it at (299, 1499); intervals of 2000 and speeds of 2
Spawn0 ==
  [id \in NpcIds |->
     [x |-> IF id = "npc_0" THEN 487 ELSE 108,
      y |-> IF id = "npc_0" THEN 509 ELSE 758,
      moveInterval |-> 0,
      moveSpeed |-> 500]]

\* the Math.random() results of a retarget: 100 to the east, and an
\* interval of 2000
Draw0 == [distance |-> 0, angle |-> 0, moveInterval |-> 0]

\* the NPC ticks so far, up to the first retarget
NpcClock == IF npcs = EmptyObject THEN 0 ELSE npcs["npc_0"].moveTimer \div 50

Next ==
  \/ onopen
  \/ closing
  \/ onclose
  \/ \E key \in Keys0 : handleKeyDown(key)
  \/ \E key \in Keys0 : handleKeyUp(key)
  \/ sendContinuousMoveCommand
  \/ myPlayerId = Null /\ onmessage(Welcome0, Spawn0, MaxLoaders)
  \/ \E data \in Frames0 : onmessage(data, Spawn0, MaxLoaders)
  \/ resize(3000, 800)
  \/ \E loader \in BagToSet(loaders) : \E p \in loader.pending :
       onload(loader, p[1], p[2], Spawn0)
  \/ \E loader \in BagToSet(loaders) : \E p \in loader.pending :
       imageFailed(loader, p[1], p[2])
  \/ NpcClock < MaxNpcTicks /\ updateNPCs([id \in NpcIds |-> Draw0])

Spec == Constructed({800}) /\ [][Next]_vars

(**************************** the image loading ***************************)
(* The reconciler and the image-load completions over avatars of more than *)
(* one frame and two payloads under one name.  The server acknowledges the *)
(* client's one join_game once.                                            *)

MaxImageLoaders == 2

\* the local player's avatar: two frames facing north, one south, one east
TwoNorth ==
  Avatar("a", 1, [d \in requiredDirections |-> IF d = "north" THEN 2 ELSE 1])

WelcomeImages == Frame(JoinOk("p1" :> Local0, "a" :> TwoNorth))

\* another player's arrival, with one of two payloads for the avatar "b"
ArrivalsImages ==
  {Frame(PlayerJoined(Other0, Avatar("b", rev, "south" :> 1))) : rev \in {1, 2}}

NextImages ==
  \/ onopen
  \/ onclose
  \/ myPlayerId = Null /\ onmessage(WelcomeImages, Spawn0, MaxImageLoaders)
  \/ \E data \in ArrivalsImages : onmessage(data, Spawn0, MaxImageLoaders)
  \/ \E loader \in BagToSet(loaders) : \E p \in loader.pending :
       onload(loader, p[1], p[2], Spawn0)
  \/ \E loader \in BagToSet(loaders) : \E p \in loader.pending :
       imageFailed(loader, p[1], p[2])

SpecImages == Constructed({800}) /\ [][NextImages]_vars

(***************************** the NPC simulation **************************)
(* The NPC timer from the creation of the NPCs on.  The retargets of the   *)
(* first two NPCs head west or north and those of the others east or       *)
(* south, so that every NPC ends in a corner of the margins and the        *)
(* simulation has finitely many states.                                    *)

\* the local player, near the corner of the world
LocalNpc == Entity("p1", 150, 100, "a")

WelcomeNpc == Frame(JoinOk("p1" :> LocalNpc, "a" :> ThreeWay))

\* the Math.random() results of createNPCs: npc_0 appears at (100, 100),
\* npc_1 at (149, 100), the others at (1946, 1946), the largest position
\* there is; intervals of 2000 and speeds of 2
SpawnNpc ==
  [id \in NpcIds |->
     [x |-> IF id = "npc_0" THEN 0 ELSE IF id = "npc_1" THEN 27
            ELSE RandomUnit - 1,
      y |-> IF id \in {"npc_0", "npc_1"} THEN 0 ELSE RandomUnit - 1,
      moveInterval |-> 0,
      moveSpeed |-> 500]]

\* the Math.random() results of the retargets of one tick: a distance of
\* 101 and the draw i for the interval of every NPC, the angle a for npc_0
\* and npc_1 and the opposite angle for the others
DrawsTowards(a, i) ==
  [id \in NpcIds |->
     [distance |-> 5,
      angle |-> IF id \in {"npc_0", "npc_1"} THEN a
                ELSE (a + RandomUnit \div 2) % RandomUnit,
      moveInterval |-> i]]

West == RandomUnit \div 2
North == 3 * (RandomUnit \div 4)

\* intervals of 3200 and of 4997, the longest there is
DrawsNpc ==
  {DrawsTowards(a, i) : a \in {West, North}, i \in {400, RandomUnit - 1}}

NextNpc ==
  \/ onopen
  \/ onclose
  \/ myPlayerId = Null /\ onmessage(WelcomeNpc, SpawnNpc, MaxLoaders)
  \/ \E loader \in BagToSet(loaders) : \E p \in loader.pending :
       onload(loader, p[1], p[2], SpawnNpc)
  \/ \E draws \in DrawsNpc : updateNPCs(draws)

SpecNpc == Constructed({800}) /\ [][NextNpc]_vars

(******************************* the trade key *****************************)
(* The trade key and the NPC timer, with the retargets of npc_0 and npc_1  *)
(* heading west.  The timer runs for as long as the page lives: its ticks  *)
(* are weakly fair.                                                        *)

\* every interval after the first is 3200
TickTrade == updateNPCs(DrawsTowards(West, 400))

NextTrade ==
  \/ onopen
  \/ myPlayerId = Null /\ onmessage(WelcomeNpc, SpawnNpc, MaxLoaders)
  \/ \E loader \in BagToSet(loaders) : \E p \in loader.pending :
       onload(loader, p[1], p[2], SpawnNpc)
  \/ \E key \in {"t", "T"} : handleKeyDown(key)
  \/ TickTrade

SpecTrade ==
  Constructed({800}) /\ [][NextTrade]_vars /\ WF_vars(TickTrade)

(******************************** properties *******************************)

\* the merge the specification describes: field by field
MergeFields(old, update) ==
  [f \in DOMAIN old \cup DOMAIN update |->
     IF f \in DOMAIN update THEN update[f] ELSE old[f]]

\* C1: handling players_moved merges per field: for every identifier of
\* the update that is already in the table, the fields of the update take
\* the new values and every other field keeps the value it had.
C1_MovedMergesPerField ==
  [][lastEvent'.type = "players_moved" =>
       \A id \in DOMAIN inbound'[1].players \cap DOMAIN players :
         /\ id \in DOMAIN players'
         /\ players'[id] = MergeFields(players[id], inbound'[1].players[id])
    ]_vars

\* C2: while the connection is open, a key-up of a held mapped key that
\* leaves no mapped key held ends with the transmission loop inactive and
\* exactly one stop message sent by that handler, also when no tick has
\* fired yet.
C2_LastKeyUpStops ==
  [][\A key \in ArrowKeys :
       ( /\ readyState = OPEN
         /\ key \in pressedKeys
         /\ lastEvent' = Event("keyup", key)
         /\ pressedKeys' = {} )
       => (movementInterval' = Null /\ out' = <<StopMessage>>)]_vars

\* C3: once the close event has been handled the transmission loop is
\* inactive and nothing is sent any more, whatever key and timer events
\* follow; and no message at all leaves in a state whose connection is not
\* open.
C3_NothingSentUnlessOpen ==
  /\ readyState = CLOSED => (movementInterval = Null /\ out = << >>)
  /\ readyState # OPEN => out = << >>

\* a key-up after the close whose stop command was dropped
C3_Witness ==
  /\ readyState = CLOSED
  /\ lastEvent = Event("keyup", "ArrowUp")
  /\ pressedKeys = {}
  /\ isMoving
  /\ out = << >>

Rank(direction) ==
  CASE direction = "up" -> 1
    [] direction = "down" -> 2
    [] direction = "left" -> 3
    [] direction = "right" -> 4

HeldDirections == {getDirectionFromKey(key) : key \in pressedKeys}

\* C4: every move message a movement-timer tick sends carries the held
\* direction that comes first in up > down > left > right, and a tick with
\* no key held sends no move.
C4_TickSendsPriorityDirection ==
  lastEvent.type = "movetick" =>
    /\ \A i \in 1..Len(out) :
         /\ out[i].action = "move"
         /\ out[i].direction \in HeldDirections
         /\ \A d \in HeldDirections : Rank(out[i].direction) <= Rank(d)
    /\ pressedKeys = {} => out = << >>

\* a tick with all four keys held
C4_Witness ==
  /\ lastEvent.type = "movetick"
  /\ pressedKeys = ArrowKeys
  /\ out = <<MoveMessage("up")>>

KnownActions == {"join_game", "player_joined", "players_moved", "player_left"}

\* C5: the player table and the local identity change only in the
\* handlers of the inbound events join_game, player_joined, players_moved
\* and player_left: key events, movement ticks, NPC ticks, resizes and
\* image loads leave both as they were.
C5_OnlyInboundEventsChangePlayers ==
  [][lastEvent'.type \notin KnownActions =>
       UNCHANGED <<players, myPlayerId>>]_vars

\* a move sent for the local player, whose entry stays where the server
\* put it, with the NPCs created
C5_Witness ==
  /\ lastEvent.type = "movetick"
  /\ out = <<MoveMessage("up")>>
  /\ myPlayerId = LocalId
  /\ players = ("p1" :> Local0)
  /\ npcsCreated

\* what recentering is to give on one axis
ClampedCentre(position, dimension) ==
  IF worldSize >= dimension
  THEN Clamp(0, position - Half(dimension), worldSize - dimension)
  ELSE 0

LocalPresent == myPlayerId # Null /\ myPlayerId \in DOMAIN players

\* the handlers that end in centerOnMyPlayer
Recentred ==
  /\ LocalPresent
  /\ \/ lastEvent.type = "resize"
     \/ lastEvent.type = "join_game" /\ inbound[1].success
     \/ lastEvent.type = "players_moved"
          /\ myPlayerId \in DOMAIN inbound[1].players

AxisCentred(field, origin, dimension) ==
  field \in DOMAIN players[myPlayerId] =>
    /\ origin = Num(ClampedCentre(players[myPlayerId][field], dimension))
    /\ worldSize >= dimension =>
         (0 <= origin.v /\ origin.v <= worldSize - dimension)
    /\ worldSize < dimension => origin.v = 0

\* C6: right after recentering, each viewport axis is
\* clamp(player - dimension/2, 0, worldSize - dimension) when the world is
\* at least as large as the dimension, and 0 when it is smaller.
C6_RecentreClamps ==
  Recentred =>
    /\ AxisCentred("x", viewport.x, viewport.width)
    /\ AxisCentred("y", viewport.y, viewport.height)

\* a recentering clamped at the high edge on one axis, and on the other
\* with a window wider than the world
C6_Witness ==
  /\ Recentred
  /\ players[myPlayerId] = Entity("p1", 2000, 2000, "a")
  /\ viewport = [x |-> Num(0), y |-> Num(1248), width |-> 3000, height |-> 800]

Max(a, b) == IF a > b THEN a ELSE b

InWorld(origin, dimension) ==
  /\ ~origin.nan
  /\ 0 <= origin.v
  /\ origin.v <= Max(0, worldSize - dimension)

\* C7: in every reachable state the viewport's top-left satisfies
\* 0 <= x <= max(0, worldSize - width) and 0 <= y <= max(0, worldSize -
\* height), also after resizes while the local player is not in the table.
C7_ViewportInWorld ==
  /\ InWorld(viewport.x, viewport.width)
  /\ InWorld(viewport.y, viewport.height)

\* C7 for the states whose viewport holds numbers: the resize of a window
\* whose player has left keeps the old origin
C7_NumericViewportInWorld ==
  (~viewport.x.nan /\ ~viewport.y.nan) => C7_ViewportInWorld

\* C8: after every handler, if the local player is in the table the
\* viewport's top-left is the clamped centering of the player's current
\* position for the current viewport size.
C8_ViewportFollowsPlayer ==
  LocalPresent =>
    /\ "x" \in DOMAIN players[myPlayerId] =>
         viewport.x = Num(ClampedCentre(players[myPlayerId].x, viewport.width))
    /\ "y" \in DOMAIN players[myPlayerId] =>
         viewport.y = Num(ClampedCentre(players[myPlayerId].y, viewport.height))

\* the kinds of inbound frame that do not decode to a known action
Ignored(type) == type \in {Kind(data) : data \in NetFrames} \ KnownActions

\* C9: an inbound message that does not decode, or whose action is none of
\* the four known ones, leaves the player table, the avatar table, the
\* local identity, the viewport and the connection as they were, and the
\* connection still open for the events that follow.
C9_IgnoredMessageChangesNothing ==
  [][Ignored(lastEvent'.type) =>
       /\ UNCHANGED <<players, avatars, avatarImages, myPlayerId, viewport,
                      readyState>>
       /\ readyState' = OPEN
    ]_vars

\* an unknown action arriving in a session that has joined
C9_Witness ==
  /\ lastEvent.type = "ping"
  /\ inbound = <<Ping>>
  /\ LocalPresent
  /\ readyState = OPEN

\* C10: handling player_left removes exactly the entry of the given
\* identifier and leaves every other entry as it was; for an identifier not
\* in the table the table is unchanged.
C10_LeftRemovesExactlyOne ==
  [][lastEvent'.type = "player_left" =>
       /\ DOMAIN players' = DOMAIN players \ {lastEvent'.key}
       /\ \A id \in DOMAIN players' : players'[id] = players[id]
    ]_vars

\* the local player has left and the other player's entry is still there
C10_Witness ==
  /\ lastEvent = Event("player_left", "p1")
  /\ DOMAIN players = {"p2"}
  /\ players["p2"] = Entity("p2", 500, 500, "a")

\* C11: a definition stored under an avatar name never changes:
\* player_joined stores its definition only under a name that is new, and
\* leaves every definition already stored as it was.
C11_JoinedKeepsDefinitions ==
  [][lastEvent'.type = "player_joined" =>
       \A name \in DOMAIN avatars :
         /\ name \in DOMAIN avatars'
         /\ avatars'[name] = avatars[name]
    ]_vars

\* the frames recorded as loaded in a cache: <<name, direction, index>>
LoadedFrames(images) ==
  UNION {UNION {{<<name, d, i>> : i \in images[name][d]} :
                  d \in DOMAIN images[name]} :
           name \in DOMAIN images}

\* C12: the image cache is never evicted: a frame recorded as loaded for
\* (avatar name, direction, index) is still recorded as loaded after every
\* handler that follows, inbound events naming the avatar again included.
C12_CacheNeverEvicted ==
  [][LoadedFrames(avatarImages) \subseteq LoadedFrames(avatarImages')]_vars

\* every frame of every direction of the definition stored under the name
\* is recorded as loaded
FullyLoaded(name, avs, images) ==
  /\ name \in DOMAIN avs
  /\ name \in DOMAIN images
  /\ \A d \in DOMAIN avs[name].frames :
       /\ d \in DOMAIN images[name]
       /\ \A i \in 0..(avs[name].frames[d] - 1) : i \in images[name][d]

\* C13: in the state where the NPCs are created, every frame of every
\* direction of the local player's avatar has finished loading, whatever
\* the order in which the images of that avatar and of others complete.
C13_NPCsCreatedAfterAvatarLoaded ==
  [][(~npcsCreated /\ npcsCreated') =>
       /\ myPlayerId' # Null
       /\ myPlayerId' \in DOMAIN players'
       /\ "avatar" \in DOMAIN players'[myPlayerId']
       /\ FullyLoaded(players'[myPlayerId'].avatar, avatars', avatarImages')
    ]_vars

\* whether an NPC is closer to its target than the arrival threshold 5
WithinArrival(npc) ==
  (npc.targetX - npc.x) * (npc.targetX - npc.x)
    + (npc.targetY - npc.y) * (npc.targetY - npc.y) < 5 * 5

Arrived(npc) ==
  /\ npc.x = npc.targetX
  /\ npc.y = npc.targetY
  /\ ~npc.isMoving
  /\ npc.animationFrame = 0

\* C14 as first stated: an NPC closer to its target than the arrival
\* threshold at the start of a simulation tick is, after that tick, exactly
\* at its target, idle and at animation phase 0.
C14_ArrivalSnaps ==
  [][lastEvent'.type = "npctick" =>
       \A id \in DOMAIN npcs :
         WithinArrival(npcs[id]) => Arrived(npcs'[id])
    ]_vars

\* whether the tick that starts now picks a new target for the NPC
Retargets(npc) == npc.moveTimer + 50 >= npc.moveInterval

\* C14: an NPC closer to its target than the arrival threshold at the
\* start of a simulation tick that does not retarget it is, after that
\* tick, exactly at its target, idle and at animation phase 0.
C14_ArrivalSnapsUnlessRetargeted ==
  [][lastEvent'.type = "npctick" =>
       \A id \in DOMAIN npcs :
         (WithinArrival(npcs[id]) /\ ~Retargets(npcs[id]))
           => Arrived(npcs'[id])
    ]_vars

\* the tick in which npc_0 arrives: retargeted from (100, 100) to
\* (50, 100), it has walked 2 per tick for 23 ticks and stood 4 short of
\* its target when the tick started
C14_Witness ==
  /\ lastEvent.type = "npctick"
  /\ npcs # EmptyObject
  /\ npcs["npc_0"].moveTimer = 1150
  /\ npcs["npc_0"].facing = "west"
  /\ npcs["npc_0"].targetX = 50
  /\ npcs["npc_0"].targetY = 100
  /\ Arrived(npcs["npc_0"])

margin == 50

\* C15: in every reachable state every NPC's target satisfies
\* margin <= targetX <= worldSize - margin and margin <= targetY <=
\* worldSize - margin with margin = 50, at creation and after every
\* retarget.
C15_TargetsWithinMargins ==
  \A id \in DOMAIN npcs :
    /\ margin <= npcs[id].targetX /\ npcs[id].targetX <= worldSize - margin
    /\ margin <= npcs[id].targetY /\ npcs[id].targetY <= worldSize - margin

\* a retarget of npc_0 towards x = -1 and one of npc_2 towards x = 2047,
\* both stored at the margins, before either NPC has got there
C15_Witness ==
  /\ npcs # EmptyObject
  /\ npcs["npc_0"].targetX = margin
  /\ npcs["npc_0"].x > margin
  /\ npcs["npc_0"].isMoving
  /\ npcs["npc_2"].targetX = worldSize - margin
  /\ npcs["npc_2"].x < worldSize - margin
  /\ npcs["npc_2"].isMoving

\* C16: in every reachable state every NPC's position lies within the
\* world, 0 <= x <= worldSize and 0 <= y <= worldSize, after creation and
\* after any number of simulation ticks and retargets.
C16_NPCsInWorld ==
  \A id \in DOMAIN npcs :
    /\ 0 <= npcs[id].x /\ npcs[id].x <= worldSize
    /\ 0 <= npcs[id].y /\ npcs[id].y <= worldSize

\* the NPCs have walked as far out as their targets go: npc_0 stands in
\* the low corner of the margins and npc_2, created at the largest
\* position there is, in the high corner
C16_Witness ==
  /\ lastEvent.type = "npctick"
  /\ npcs # EmptyObject
  /\ npcs["npc_0"].x = margin /\ npcs["npc_0"].y = margin
  /\ npcs["npc_2"].x = worldSize - margin
  /\ npcs["npc_2"].y = worldSize - margin
  /\ ~npcs["npc_0"].isMoving /\ ~npcs["npc_2"].isMoving

\* the square of the distance from the local player to an NPC
DistanceSquared(id) ==
  (npcs[id].x - players[myPlayerId].x) * (npcs[id].x - players[myPlayerId].x)
    + (npcs[id].y - players[myPlayerId].y) * (npcs[id].y - players[myPlayerId].y)

WithinTradeRadius ==
  {id \in DOMAIN npcs : DistanceSquared(id) <= tradeDistance * tradeDistance}

\* C17: after each simulation tick in which the local player exists, the
\* NPC recorded as nearby is within the trade radius 80 and no other NPC
\* is strictly closer to the local player; if no NPC is within the radius,
\* none is recorded and the trade prompt is off.
C17_NearbyIsNearest ==
  (lastEvent.type = "npctick" /\ LocalPresent
     /\ {"x", "y"} \subseteq DOMAIN players[myPlayerId]) =>
    IF WithinTradeRadius = {}
    THEN nearbyNPC = Null /\ ~showTradePrompt
    ELSE /\ nearbyNPC \in WithinTradeRadius
         /\ \A other \in DOMAIN npcs :
              DistanceSquared(other) >= DistanceSquared(nearbyNPC)

\* C18: a key-down of a mapped key that is not recorded as held records
\* it as held, whatever the state of the connection: before it opens,
\* while it is open, after it has closed.
C18_KeyDownRecordsHeld ==
  [][\A key \in ArrowKeys :
       (lastEvent' = Event("keydown", key) /\ key \notin pressedKeys)
         => pressedKeys' = pressedKeys \cup {key}
    ]_vars

\* the trade key has just set the message again
TradeKeyHandled ==
  /\ lastEvent.type = "keydown"
  /\ lastEvent.key \in {"t", "T"}
  /\ tradeMessageTimer = 3000

\* C19: the trade message is non-empty exactly when its timer is greater
\* than 0; the timer is at most 3000 and every simulation tick takes 50
\* off a running timer, so that a message is cleared at most 60 ticks
\* after the trade key set it; and with the ticks weakly fair a message
\* that is set is eventually cleared, unless the trade key sets it again.
C19_TradeMessageTimeLimited ==
  /\ [](tradeMessage # "" <=> tradeMessageTimer > 0)
  /\ [](0 <= tradeMessageTimer /\ tradeMessageTimer <= 60 * 50)
  /\ [][(lastEvent'.type = "npctick" /\ tradeMessageTimer > 0) =>
          tradeMessageTimer' = tradeMessageTimer - 50]_vars
  /\ (tradeMessage # "") ~> (tradeMessage = "" \/ TradeKeyHandled)

\* the last tick before the message goes: 59 ticks after the trade key
\* set it
C19_Witness ==
  /\ lastEvent.type = "npctick"
  /\ tradeMessage = "You have nothing to trade"
  /\ tradeMessageTimer = 50

\* C20: a key-down of a mapped key starts a transmission loop only if none
\* is active: when a loop is active, the key-down of a second mapped key
\* leaves the loop and its tick schedule as they are instead of cancelling
\* and restarting it.
C20_KeyDownKeepsActiveLoop ==
  [][\A key \in ArrowKeys :
       (lastEvent' = Event("keydown", key) /\ movementInterval # Null)
         => movementInterval' = movementInterval
    ]_vars

\* what one simulation tick may do to the position of an NPC, from the NPC
\* before the tick to the NPC after it: a snap onto the target of the tick
\* from less than 5 away, or one step of its speed straight towards it
ContinuousStep(before, after) ==
  LET dx == after.targetX - before.x
      dy == after.targetY - before.y
      mx == after.x - before.x
      my == after.y - before.y
  IN /\ mx * mx + my * my < 5 * 5
     /\ \/ /\ dx * dx + dy * dy < 5 * 5
           /\ after.x = after.targetX
           /\ after.y = after.targetY
        \/ /\ dx * dx + dy * dy >= 5 * 5
           /\ mx * mx + my * my = before.moveSpeed * before.moveSpeed
           /\ before.moveSpeed <= 3
           /\ mx * dy = my * dx
           /\ mx * dx + my * dy > 0

\* C21: in one simulation tick the position of an NPC changes by exactly
\* its speed (at most 3) towards its target, or by the snap onto a target
\* less than 5 away, or not at all; a tick that retargets moves the NPC by
\* no more than one step, and no tick displaces an NPC by 5 or more.
C21_TrajectoriesContinuous ==
  [][lastEvent'.type = "npctick" =>
       \A id \in DOMAIN npcs :
         /\ id \in DOMAIN npcs'
         /\ ContinuousStep(npcs[id], npcs'[id])
    ]_vars

\* the tick that retargets npc_0 from (100, 100) to (50, 100): it has
\* taken the one step of 2 towards the new target
C21_Witness ==
  /\ lastEvent.type = "npctick"
  /\ npcs # EmptyObject
  /\ npcs["npc_0"].moveTimer = 0
  /\ npcs["npc_0"].targetX = 50
  /\ npcs["npc_0"].x = 98
  /\ npcs["npc_0"].y = 100
  /\ npcs["npc_0"].isMoving

tickDuration == 50

\* C22: after every simulation tick each NPC has 0 <= moveTimer <
\* moveInterval and moveInterval within [2000, 5000]; the tick in which the
\* timer reaches the interval, and no other, retargets: it resets the timer
\* to 0, every other tick adds 50 to it and keeps target and interval; so
\* no NPC goes 100 ticks in a row without a retarget.
C22_RetargetWhenTimerReachesInterval ==
  /\ [](\A id \in DOMAIN npcs :
          /\ 0 <= npcs[id].moveTimer
          /\ npcs[id].moveTimer < npcs[id].moveInterval
          /\ 2000 <= npcs[id].moveInterval
          /\ npcs[id].moveInterval <= 5000
          /\ npcs[id].moveTimer <= (100 - 1) * tickDuration)
  /\ [][lastEvent'.type = "npctick" =>
          \A id \in DOMAIN npcs :
            IF npcs[id].moveTimer + tickDuration >= npcs[id].moveInterval
            THEN /\ npcs'[id].moveTimer = 0
                 /\ npcs'[id].isMoving
                      \/ (npcs'[id].x = npcs'[id].targetX
                            /\ npcs'[id].y = npcs'[id].targetY)
            ELSE /\ npcs'[id].moveTimer = npcs[id].moveTimer + tickDuration
                 /\ npcs'[id].moveInterval = npcs[id].moveInterval
                 /\ npcs'[id].targetX = npcs[id].targetX
                 /\ npcs'[id].targetY = npcs[id].targetY
                 /\ npcs'[id].facing = npcs[id].facing
       ]_vars

\* the 99th tick after a retarget that drew the longest interval: the next
\* tick retargets
C22_Witness ==
  /\ lastEvent.type = "npctick"
  /\ npcs # EmptyObject
  /\ npcs["npc_0"].moveInterval = 4997
  /\ npcs["npc_0"].moveTimer = 99 * tickDuration

\* C23: whatever the order of connection open and close, key events and
\* timer ticks, the messages sent are join_game once and first, then groups
\* of one or more moves, each group ended by at most one stop: no stop
\* without a move since the stop before it (or since the join), and no two
\* stops in a row.
C23_OutboundFollowsProtocol == wire # "violated"

\* a stop that ends a group of moves, with the connection still open for
\* the next group
C23_Witness ==
  /\ lastEvent.type = "keyup"
  /\ out = <<StopMessage>>
  /\ wire = "idle"
  /\ readyState = OPEN
  /\ pressedKeys = {}
  /\ movementInterval = Null

\* the join was acknowledged with a snapshot that holds the local player
\* and its avatar, every frame of that avatar has loaded, and no image is
\* still loading: no completion is left that could create the NPCs
LocalAvatarLoaded ==
  /\ myPlayerId = LocalId
  /\ FullyLoaded(Local0.avatar, avatars, avatarImages)
  /\ loaders = EmptyBag

\* C24: after a join_game acknowledged with the local player and an avatar
\* of at least one frame facing north, south and east, once every frame of
\* that avatar has loaded the 6 NPCs are created, whatever players_moved,
\* player_joined and player_left events arrive between the image loads.
\* Stated on the state where the loading is over: there the NPCs exist.
C24_NPCsCreatedOnceAvatarLoaded ==
  LocalAvatarLoaded => (npcsCreated /\ DOMAIN npcs = NpcIds)

====
